---- MODULE Spec2Model ----
(***************************************************************************)
(* Splice Bot: unified-diff hunk extraction (src/src/diff.ts), selection   *)
(* merging (src/src/index.ts) and patch application (src/src/diff.ts,      *)
(* src/src/github.ts).                                                     *)
(*                                                                         *)
(* Text representation.  A line of patch text is a record                  *)
(*   [mark, text, hdr]: mark is the leading character ("" for the empty    *)
(*   line), text is the rest of the line after the leading character as an *)
(*   opaque value (0 is the empty string), hdr is <<>> or the four groups  *)
(*   of the hunk-header pattern found in the line (null for an absent      *)
(*   optional group).  A line of file content is an opaque value (0 is the *)
(*   empty string).  A string of file content is the non-empty sequence of *)
(*   lines that split('\n') gives; the empty string is <<0>>.              *)
(***************************************************************************)
EXTENDS Integers, Sequences, FiniteSets, TLC

\* ---------------------------------------------------------------- bounds
MaxPatchLen == 4
MaxLine == 4
MaxBase == 3
MaxBody == 2
MaxOldLines == 2
MaxHunks == 2
MaxSeqBody == 1
MaxRanges == 3
MaxRangeLine == 3
MaxBatch == 2
MaxEvents == 2
MaxSuffix == 2

\* ------------------------------------------------------- program values
null == 0 - 1
Infinity == 999999
\* the null result of parseHunkHeader and of extractHunkForLineRange
nullHeader == [oldStart |-> null, oldLines |-> null, newStart |-> null, newLines |-> null]
nullHunk == [oldStart |-> null, oldLines |-> null, newStart |-> null, newLines |-> null,
             content |-> <<>>]

BodyMarks == {"+", "-", " ", "\\"}
ApplyMarks == BodyMarks \cup {""}
\* the base file ends with the old lines of the patch, or has one more line
Tails == {0, 1}
HeaderStarts == {<<0, 1>>, <<1, 1>>, <<3, 4>>}

HeaderLine(os, ol, ns, nl) == [mark |-> "@", text |-> 0, hdr |-> <<os, ol, ns, nl>>]
BodyLine(m, t) == [mark |-> m, text |-> IF m = "" THEN 0 ELSE t, hdr |-> <<>>]

Min(a, b) == IF a < b THEN a ELSE b
Max(a, b) == IF a > b THEN a ELSE b

\* ---------------------------------------------------- parseHunkHeader
parseHunkHeader(header) ==
  IF Len(header.hdr) = 0 THEN nullHeader
  ELSE [oldStart |-> header.hdr[1],
        oldLines |-> IF header.hdr[2] = null THEN 1 ELSE header.hdr[2],
        newStart |-> header.hdr[3],
        newLines |-> IF header.hdr[4] = null THEN 1 ELSE header.hdr[4]]

\* ------------------------------------------- extractHunkForLineRange
\* mutant: a deletion line is given the running new line number
ParseLine_DeletionKeepsNew(st, line) ==
  LET header == parseHunkHeader(line) IN
  IF header # nullHeader
    THEN [st EXCEPT !.currentOldLine = header.oldStart,
                    !.currentNewLine = header.newStart,
                    !.inHunk = TRUE]
  ELSE IF ~st.inHunk THEN st
  ELSE IF line.mark = "+"
    THEN [st EXCEPT !.allDiffLines = Append(@, [content |-> line, type |-> "addition",
                                                 oldLineNum |-> null,
                                                 newLineNum |-> st.currentNewLine]),
                    !.currentNewLine = @ + 1]
  ELSE IF line.mark = "-"
    THEN [st EXCEPT !.allDiffLines = Append(@, [content |-> line, type |-> "deletion",
                                                 oldLineNum |-> st.currentOldLine,
                                                 newLineNum |-> st.currentNewLine]),
                    !.currentOldLine = @ + 1]
  ELSE [st EXCEPT !.allDiffLines = Append(@, [content |-> line, type |-> "context",
                                               oldLineNum |-> st.currentOldLine,
                                               newLineNum |-> st.currentNewLine]),
                  !.currentOldLine = @ + 1,
                  !.currentNewLine = @ + 1]

\* mutant: only the first header sets the counters, a later hunk counts on
ParseLine_NoReset(st, line) ==
  LET header == parseHunkHeader(line) IN
  IF header # nullHeader
    THEN IF st.inHunk THEN st
         ELSE [st EXCEPT !.currentOldLine = header.oldStart,
                         !.currentNewLine = header.newStart,
                         !.inHunk = TRUE]
  ELSE IF ~st.inHunk THEN st
  ELSE IF line.mark = "+"
    THEN [st EXCEPT !.allDiffLines = Append(@, [content |-> line, type |-> "addition",
                                                 oldLineNum |-> null,
                                                 newLineNum |-> st.currentNewLine]),
                    !.currentNewLine = @ + 1]
  ELSE IF line.mark = "-"
    THEN [st EXCEPT !.allDiffLines = Append(@, [content |-> line, type |-> "deletion",
                                                 oldLineNum |-> st.currentOldLine,
                                                 newLineNum |-> null]),
                    !.currentOldLine = @ + 1]
  ELSE [st EXCEPT !.allDiffLines = Append(@, [content |-> line, type |-> "context",
                                               oldLineNum |-> st.currentOldLine,
                                               newLineNum |-> st.currentNewLine]),
                  !.currentOldLine = @ + 1,
                  !.currentNewLine = @ + 1]

\* One iteration of the parsing loop.
ParseLine(st, line) ==
  LET header == parseHunkHeader(line) IN
  IF header # nullHeader
    THEN [st EXCEPT !.currentOldLine = header.oldStart,
                    !.currentNewLine = header.newStart,
                    !.inHunk = TRUE]
  ELSE IF ~st.inHunk THEN st
  ELSE IF line.mark = "+"
    THEN [st EXCEPT !.allDiffLines = Append(@, [content |-> line, type |-> "addition",
                                                 oldLineNum |-> null,
                                                 newLineNum |-> st.currentNewLine]),
                    !.currentNewLine = @ + 1]
  ELSE IF line.mark = "-"
    THEN [st EXCEPT !.allDiffLines = Append(@, [content |-> line, type |-> "deletion",
                                                 oldLineNum |-> st.currentOldLine,
                                                 newLineNum |-> null]),
                    !.currentOldLine = @ + 1]
  ELSE [st EXCEPT !.allDiffLines = Append(@, [content |-> line, type |-> "context",
                                               oldLineNum |-> st.currentOldLine,
                                               newLineNum |-> st.currentNewLine]),
                  !.currentOldLine = @ + 1,
                  !.currentNewLine = @ + 1]

ParseInit == [allDiffLines |-> <<>>, currentOldLine |-> 0, currentNewLine |-> 0, inHunk |-> FALSE]

RECURSIVE ParseLines(_, _)
\* The state of the parsing loop after the first n lines.
ParseLines(lines, n) ==
  IF n = 0 THEN ParseInit ELSE ParseLine(ParseLines(lines, n - 1), lines[n])

ParseDiff(lines) == ParseLines(lines, Len(lines)).allDiffLines

\* mutant: the upper end of the range is excluded
InSelectedRange_Exclusive(diffLine, startLine, endLine) ==
  diffLine.newLineNum # null /\ diffLine.newLineNum >= startLine
  /\ diffLine.newLineNum < endLine

\* The condition of the first pass (diff.ts 98-100).
InSelectedRange(diffLine, startLine, endLine) ==
  diffLine.newLineNum # null /\ diffLine.newLineNum >= startLine
  /\ diffLine.newLineNum <= endLine

Includes(seq, x) == \E k \in 1..Len(seq) : seq[k] = x

RECURSIVE FirstPass(_, _, _, _)
\* First pass over allDiffLines[1..n]: the selected positions in push order
\* with the running minima and maxima.
FirstPass(all, n, startLine, endLine) ==
  IF n = 0 THEN [selected |-> <<>>, minOldLine |-> Infinity, maxOldLine |-> 0,
                 minNewLine |-> Infinity, maxNewLine |-> 0]
  ELSE LET p == FirstPass(all, n - 1, startLine, endLine)
           diffLine == all[n] IN
       IF InSelectedRange(diffLine, startLine, endLine)
         THEN [selected |-> Append(p.selected, n),
               minOldLine |-> IF diffLine.oldLineNum # null
                                THEN Min(p.minOldLine, diffLine.oldLineNum) ELSE p.minOldLine,
               maxOldLine |-> IF diffLine.oldLineNum # null
                                THEN Max(p.maxOldLine, diffLine.oldLineNum) ELSE p.maxOldLine,
               minNewLine |-> Min(p.minNewLine, diffLine.newLineNum),
               maxNewLine |-> Max(p.maxNewLine, diffLine.newLineNum)]
         ELSE p

\* The deletion at position n lies in the old line range of the first pass
\* (diff.ts 118).
InOldRange(diffLine, p) ==
  p.minOldLine # Infinity /\ diffLine.oldLineNum >= p.minOldLine
  /\ diffLine.oldLineNum <= p.maxOldLine + 1

\* mutants: the test looks at position n instead of n + 1; the type test
\* names the wrong type; the membership test is left out
FollowedBySelected_SamePosition(all, n, sel) ==
  n + 1 <= Len(all) /\ Includes(sel, n) /\ all[n].type = "addition"

FollowedBySelected_WrongType(all, n, sel) ==
  n + 1 <= Len(all) /\ Includes(sel, n + 1) /\ all[n + 1].type = "context"

FollowedBySelected_AnyAddition(all, n, sel) ==
  n + 1 <= Len(all) /\ all[n + 1].type = "addition"

\* mutant: the bound of the look-ahead leaves out the last diff line
FollowedBySelected_OffByOne(all, n, sel) ==
  n + 1 < Len(all) /\ Includes(sel, n + 1) /\ all[n + 1].type = "addition"

\* The line after position n is a selected addition (diff.ts 125-127).
FollowedBySelected(all, n, sel) ==
  n + 1 <= Len(all) /\ Includes(sel, n + 1) /\ all[n + 1].type = "addition"

RECURSIVE SecondPass(_, _, _)
\* Second pass over allDiffLines[1..n]: the selected positions in push order.
SecondPass(all, n, p) ==
  IF n = 0 THEN p.selected
  ELSE LET sel == SecondPass(all, n - 1, p)
           diffLine == all[n] IN
       IF diffLine.type = "deletion" /\ diffLine.oldLineNum # null
         THEN IF InOldRange(diffLine, p)
                THEN (IF ~Includes(sel, n) THEN Append(sel, n) ELSE sel)
              ELSE IF FollowedBySelected(all, n, sel)
                THEN (IF ~Includes(sel, n) THEN Append(sel, n) ELSE sel)
              ELSE sel
         ELSE sel

RECURSIVE InsertSorted(_, _)
InsertSorted(sorted, x) ==
  IF sorted = <<>> THEN <<x>>
  ELSE IF x < sorted[Len(sorted)]
         THEN Append(InsertSorted(SubSeq(sorted, 1, Len(sorted) - 1), x), sorted[Len(sorted)])
         ELSE Append(sorted, x)

\* mutant: the selected lines stay in push order
SortByPosition_PushOrder(sel) == sel

RECURSIVE SortByPosition(_)
\* selectedLines.sort by position in allDiffLines (positions are the values).
SortByPosition(sel) ==
  IF sel = <<>> THEN <<>>
  ELSE InsertSorted(SortByPosition(SubSeq(sel, 1, Len(sel) - 1)), sel[Len(sel)])

\* The positions in allDiffLines of the selected lines, after the sort.
SelectedLines(all, startLine, endLine) ==
  SortByPosition(SecondPass(all, Len(all), FirstPass(all, Len(all), startLine, endLine)))

RECURSIVE CountOld_ContextOnly(_, _)
\* mutant: deletions are not counted
CountOld_ContextOnly(all, sel) ==
  IF sel = <<>> THEN 0
  ELSE CountOld_ContextOnly(all, Tail(sel)) + (IF all[Head(sel)].type = "context" THEN 1 ELSE 0)

RECURSIVE CountOld(_, _)
CountOld(all, sel) ==
  IF sel = <<>> THEN 0
  ELSE CountOld(all, Tail(sel)) + (IF all[Head(sel)].type = "addition" THEN 0 ELSE 1)

RECURSIVE CountNew(_, _)
CountNew(all, sel) ==
  IF sel = <<>> THEN 0
  ELSE CountNew(all, Tail(sel)) + (IF all[Head(sel)].type = "deletion" THEN 0 ELSE 1)

RECURSIVE FindOld(_, _)
\* selectedLines.find(l => l.oldLineNum !== null)?.oldLineNum  (null: undefined)
FindOld(all, sel) ==
  IF sel = <<>> THEN null
  ELSE IF all[Head(sel)].oldLineNum # null THEN all[Head(sel)].oldLineNum
  ELSE FindOld(all, Tail(sel))

RECURSIVE FindNew_FirstLine(_, _)
\* mutant: the new line number of the first selected line, whatever its type
FindNew_FirstLine(all, sel) ==
  IF sel = <<>> THEN null ELSE all[Head(sel)].newLineNum

RECURSIVE FindNew(_, _)
FindNew(all, sel) ==
  IF sel = <<>> THEN null
  ELSE IF all[Head(sel)].newLineNum # null THEN all[Head(sel)].newLineNum
  ELSE FindNew(all, Tail(sel))

\* x || 1 on a number or undefined
OrOne(x) == IF x = null \/ x = 0 THEN 1 ELSE x

FirstOldLine(all, sel) == OrOne(FindOld(all, sel))
FirstNewLine(all, sel) == OrOne(FindNew(all, sel))

extractHunkForLineRange(filePatch, startLine, endLine) ==
  LET all == ParseDiff(filePatch)
      sel == SelectedLines(all, startLine, endLine)
  IN IF Len(sel) = 0 THEN nullHunk
     ELSE LET oldLinesCount == CountOld(all, sel)
              newLinesCount == CountNew(all, sel)
              firstOldLine == FirstOldLine(all, sel)
              firstNewLine == FirstNewLine(all, sel)
              header == HeaderLine(firstOldLine, oldLinesCount, firstNewLine, newLinesCount)
          IN [oldStart |-> firstOldLine,
              oldLines |-> oldLinesCount,
              newStart |-> firstNewLine,
              newLines |-> newLinesCount,
              content |-> <<header>> \o [k \in 1..Len(sel) |-> all[sel[k]].content]]

\* ------------------------------------------------------------ applyHunk
undefined == 0 - 2

\* baseContent === '' ? [] : baseContent.split('\n')
SplitContent(baseContent) == IF baseContent = <<0>> THEN <<>> ELSE baseContent

\* result.join('\n'): an undefined element is joined as the empty string
JoinLines(lines) ==
  IF lines = <<>> THEN <<0>>
  ELSE [k \in 1..Len(lines) |-> IF lines[k] = undefined THEN 0 ELSE lines[k]]

\* baseLines[i], i counted from 0
LineAt(baseLines, i) ==
  IF i >= 0 /\ i < Len(baseLines) THEN baseLines[i + 1] ELSE undefined

\* mutant: the loop runs to oldStart instead of oldStart - 1
LinesBefore_OneMore(baseLines, hunk) ==
  [k \in 1..Max(0, hunk.oldStart) |-> LineAt(baseLines, k - 1)]

\* for (let i = 0; i < hunk.oldStart - 1; i++) result.push(baseLines[i])
LinesBefore(baseLines, hunk) ==
  [k \in 1..Max(0, hunk.oldStart - 1) |-> LineAt(baseLines, k - 1)]

\* What one line of the hunk body pushes to the result (diff.ts 252-261).
ApplyLine(line) ==
  IF line.mark = "+" THEN <<line.text>>
  ELSE IF line.mark = "-" THEN <<>>
  ELSE IF line.mark = " " \/ line.mark = "" THEN <<line.text>>
  ELSE <<>>

RECURSIVE ApplyPatchLines(_)
ApplyPatchLines(patchLines) ==
  IF patchLines = <<>> THEN <<>>
  ELSE ApplyLine(Head(patchLines)) \o ApplyPatchLines(Tail(patchLines))

\* const afterHunkStart = hunk.oldStart - 1 + hunk.oldLines
AfterHunkStart(hunk) == hunk.oldStart - 1 + hunk.oldLines

\* for (let i = afterHunkStart; i < baseLines.length; i++) result.push(baseLines[i])
LinesAfter(baseLines, hunk) ==
  LET from == AfterHunkStart(hunk)
      n == Max(0, Len(baseLines) - from)
  IN [k \in 1..n |-> LineAt(baseLines, from + k - 1)]

applyHunk(baseContent, hunk) ==
  LET baseLines == SplitContent(baseContent)
      patchLines == IF hunk.content = <<>> THEN <<>> ELSE Tail(hunk.content)
  IN JoinLines(LinesBefore(baseLines, hunk) \o ApplyPatchLines(patchLines)
               \o LinesAfter(baseLines, hunk))

\* ------------------------------------------------------- commitChanges
RECURSIVE ApplyAll(_, _)
\* for (const hunk of fileChange.hunks) newContent = applyHunk(newContent, hunk)
ApplyAll(newContent, hunks) ==
  IF hunks = <<>> THEN newContent
  ELSE ApplyAll(applyHunk(newContent, Head(hunks)), Tail(hunks))

\* -------------------------------------------------------- getFileDiff
\* The patch of the file, or null (here <<>>) when the file has no patch.
getFileDiff(filePatch) == filePatch

\* ------------------------------------------------------ extractChanges
\* The hunks of the ExtractedChange, <<>> for a null result.
extractChanges(filePatch, startLine, endLine) ==
  LET patch == getFileDiff(filePatch) IN
  IF patch = <<>> THEN <<>>
  ELSE LET hunk == extractHunkForLineRange(patch, startLine, endLine) IN
       IF hunk = nullHunk THEN <<>> ELSE <<hunk>>

\* -------------------------------------------------- mergeBatchComments
\* a || b on numbers and null
Or(a, b) == IF a = null \/ a = 0 THEN b ELSE a

\* The range of one comment (index.ts 502-508).
CommentRange(comment) ==
  [start |-> IF comment.side = "LEFT"
               THEN Or(Or(comment.originalStartLine, comment.originalEndLine), 0)
               ELSE comment.startLine,
   end   |-> IF comment.side = "LEFT" THEN Or(comment.originalEndLine, 0)
               ELSE comment.endLine]

RECURSIVE CollectRanges(_, _)
\* leftRanges (side = "LEFT") or rightRanges of the comments of one file.
CollectRanges(fileComments, side) ==
  IF fileComments = <<>> THEN <<>>
  ELSE LET comment == fileComments[Len(fileComments)]
           rest == CollectRanges(SubSeq(fileComments, 1, Len(fileComments) - 1), side)
           r == CommentRange(comment)
       IN IF r.start = 0 \/ r.end = 0 THEN rest
          ELSE IF comment.side = side \/ (side = "RIGHT" /\ comment.side # "LEFT")
            THEN Append(rest, r)
          ELSE rest

RECURSIVE InsertRange(_, _)
InsertRange(sorted, r) ==
  IF sorted = <<>> THEN <<r>>
  ELSE IF r.start < sorted[Len(sorted)].start
         THEN Append(InsertRange(SubSeq(sorted, 1, Len(sorted) - 1), r), sorted[Len(sorted)])
         ELSE Append(sorted, r)

RECURSIVE SortRanges(_)
\* ranges.sort by start; Array.prototype.sort is stable
SortRanges(ranges) ==
  IF ranges = <<>> THEN <<>>
  ELSE InsertRange(SortRanges(SubSeq(ranges, 1, Len(ranges) - 1)), ranges[Len(ranges)])

RECURSIVE MergeLoop_LastEnd(_, _, _, _)
\* mutant: a merged range ends where the last range merged into it ends
MergeLoop_LastEnd(ranges, i, current, merged) ==
  IF i > Len(ranges) THEN Append(merged, current)
  ELSE LET next == ranges[i] IN
       IF next.start <= current.end + 1
         THEN MergeLoop_LastEnd(ranges, i + 1, [current EXCEPT !.end = next.end], merged)
         ELSE MergeLoop_LastEnd(ranges, i + 1, next, Append(merged, current))

RECURSIVE MergeLoop_OverlapOnly(_, _, _, _)
\* mutant: a range that only touches the accumulator starts a new one
MergeLoop_OverlapOnly(ranges, i, current, merged) ==
  IF i > Len(ranges) THEN Append(merged, current)
  ELSE LET next == ranges[i] IN
       IF next.start <= current.end
         THEN MergeLoop_OverlapOnly(ranges, i + 1, [current EXCEPT !.end = Max(current.end, next.end)], merged)
         ELSE MergeLoop_OverlapOnly(ranges, i + 1, next, Append(merged, current))

RECURSIVE MergeLoop_KeepsEnd(_, _, _, _)
\* mutant: a merged range keeps the end of its first range
MergeLoop_KeepsEnd(ranges, i, current, merged) ==
  IF i > Len(ranges) THEN Append(merged, current)
  ELSE LET next == ranges[i] IN
       IF next.start <= current.end + 1
         THEN MergeLoop_KeepsEnd(ranges, i + 1, current, merged)
         ELSE MergeLoop_KeepsEnd(ranges, i + 1, next, Append(merged, current))

RECURSIVE MergeLoop(_, _, _, _)
\* The merge loop from index i on with the accumulator current (index.ts 543-555).
MergeLoop(ranges, i, current, merged) ==
  IF i > Len(ranges) THEN Append(merged, current)
  ELSE LET next == ranges[i] IN
       IF next.start <= current.end + 1
         THEN MergeLoop(ranges, i + 1, [current EXCEPT !.end = Max(current.end, next.end)], merged)
         ELSE MergeLoop(ranges, i + 1, next, Append(merged, current))

\* The merged ranges of one side, for a non-empty list of ranges.
MergeRanges(ranges) ==
  LET sorted == SortRanges(ranges) IN MergeLoop(sorted, 2, sorted[1], <<>>)

RECURSIVE ExtractMerged(_, _, _)
\* The side is passed as a fourth argument, which extractHunkForLineRange
\* does not declare (diff.ts 37): the call has the effect of the three-argument call.
ExtractMerged(patch, merged, side) ==
  IF merged = <<>> THEN <<>>
  ELSE LET hunk == extractHunkForLineRange(patch, Head(merged).start, Head(merged).end)
           rest == ExtractMerged(patch, Tail(merged), side)
       IN IF hunk # nullHunk THEN <<hunk>> \o rest ELSE rest

SideHunks(patch, fileComments, side) ==
  LET ranges == CollectRanges(fileComments, side) IN
  IF Len(ranges) = 0 THEN <<>> ELSE ExtractMerged(patch, MergeRanges(ranges), side)

\* The hunks of the ExtractedChange of one file, <<>> when the file is left out.
mergeBatchComments(filePatch, fileComments) ==
  LET patch == getFileDiff(filePatch) IN
  IF patch = <<>> THEN <<>>
  ELSE SideHunks(patch, fileComments, "LEFT") \o SideHunks(patch, fileComments, "RIGHT")

\* ------------------------------------------------ collectBatchComments
\* The body of a comment: whether it holds the word splice-bot, the value of
\* its batch: argument ("" when absent) and whether it holds --ship.
Body(cmd, batch, ship) == [cmd |-> cmd, batch |-> batch, ship |-> ship]

nullInstruction == [batch |-> "", ship |-> FALSE, parsed |-> FALSE]

\* parseInstruction: null without the word splice-bot; the key batch sets
\* instruction.batch; no flag or key sets instruction.ship, which stays
\* undefined (falsy).
parseInstruction(body) ==
  IF ~body.cmd THEN nullInstruction
  ELSE [batch |-> body.batch, ship |-> FALSE, parsed |-> TRUE]

\* The CommentContext of a review comment (index.ts 440-455) with its body.
ReviewComment(path, body, side, s, e, os, oe) ==
  [path |-> path, body |-> body, side |-> side, startLine |-> s, endLine |-> e,
   originalStartLine |-> os, originalEndLine |-> oe]

\* The comments of the pull request whose instruction names the batch.
collectBatchComments(reviewComments, batchId) ==
  LET InBatch(comment) ==
        LET instruction == parseInstruction(comment.body) IN
        instruction.parsed /\ instruction.batch = batchId
  IN SelectSeq(reviewComments, InBatch)

\* ------------------------------------- mergeBatchComments: the file loop
RECURSIVE FileGroups(_)
\* The keys of fileGroups in insertion order.
FileGroups(batchComments) ==
  IF batchComments = <<>> THEN <<>>
  ELSE LET rest == FileGroups(SubSeq(batchComments, 1, Len(batchComments) - 1))
           path == batchComments[Len(batchComments)].path
       IN IF Includes(rest, path) THEN rest ELSE Append(rest, path)

FileComments(batchComments, path) ==
  LET OnPath(comment) == comment.path = path IN SelectSeq(batchComments, OnPath)

RECURSIVE ProcessFiles_StopAtMissing(_, _, _)
\* mutant: a file without a diff ends the loop (break for continue)
ProcessFiles_StopAtMissing(paths, listFiles, batchComments) ==
  IF paths = <<>> THEN <<>>
  ELSE LET path == Head(paths)
           extractedHunks == mergeBatchComments(listFiles[path], FileComments(batchComments, path))
       IN IF listFiles[path] = <<>> THEN <<>>
          ELSE LET rest == ProcessFiles_StopAtMissing(Tail(paths), listFiles, batchComments)
               IN IF Len(extractedHunks) > 0
                    THEN <<[path |-> path, hunks |-> extractedHunks]>> \o rest
                    ELSE rest

RECURSIVE ProcessFiles(_, _, _)
\* The loop over fileGroups.entries() (index.ts 486-569): files.
ProcessFiles(paths, listFiles, batchComments) ==
  IF paths = <<>> THEN <<>>
  ELSE LET path == Head(paths)
           extractedHunks == mergeBatchComments(listFiles[path], FileComments(batchComments, path))
           rest == ProcessFiles(Tail(paths), listFiles, batchComments)
       IN IF Len(extractedHunks) > 0
            THEN <<[path |-> path, hunks |-> extractedHunks]>> \o rest
            ELSE rest

\* The files of the BatchedChanges mergeBatchComments returns.
BatchedChanges(listFiles, batchComments) ==
  ProcessFiles(FileGroups(batchComments), listFiles, batchComments)

\* ================================================================ state
VARIABLES
  pc,           \* "patch", "hunks", "extracted", "notfound", "committed"
  patch,        \* the patch text of the file, split in lines (<<>>: no patch)
  comments,     \* the review comments (CommentContext) of the request
  hunks,        \* the hunks of the ExtractedChange of the file
  baseContent,  \* the content of the file on the base branch
  newContent    \* the content commitChanges makes the blob from

VARIABLES
  prFiles,      \* the patch of each file of the pull request (<<>>: none)
  prComments,   \* the review comments of the pull request
  call,         \* the arguments of the running spliceBatch
  files,        \* batchedChanges.files
  ops,          \* the requests made that write (ok: the request did not throw)
  result,       \* the SpliceResult spliceBatch returned
  failed,       \* core.setFailed was called
  event         \* the event of the workflow run (n: its number)

VARIABLES
  branches,     \* the existing branches among the names of the run: 1 is the
                \* base name, k the base name with the suffix -k
  branchName,   \* createSplicePr: branchName (0 before the loop)
  suffix,       \* createSplicePr: suffix
  checks        \* the results of branchExists in the run, in order

branchVars == <<branches, branchName, suffix, checks>>

botVars == <<prFiles, prComments, call, files, ops, result, failed, event, branchVars>>

vars == <<pc, patch, comments, hunks, baseContent, newContent, botVars>>

Paths == {"f", "g"}
noCall == [batchId |-> ""]
noResult == [success |-> FALSE, error |-> "pending"]
noEvent == [n |-> 0, eventName |-> "", body |-> [cmd |-> FALSE, batch |-> "", ship |-> FALSE],
            path |-> "", line |-> 0]

\* The state of the bot when no pull request is looked at.
BotIdle ==
  /\ prFiles = [path \in Paths |-> <<>>]
  /\ prComments = <<>>
  /\ call = noCall
  /\ files = <<>>
  /\ ops = <<>>
  /\ result = noResult
  /\ failed = FALSE
  /\ event = noEvent
  /\ branches = {}
  /\ branchName = 0
  /\ suffix = 0
  /\ checks = <<>>

\* ---------------------------------------------------------------- inputs
\* The lines a patch can have at position pos; the text of a body line is pos.
PatchLines(pos) ==
  {HeaderLine(hs[1], null, hs[2], null) : hs \in HeaderStarts}
  \cup {BodyLine(m, pos) : m \in BodyMarks}

\* A review comment on lines s..e of one side (index.ts 439-455).
Comment(side, s, e) ==
  [side |-> side, startLine |-> s, endLine |-> e,
   originalStartLine |-> s, originalEndLine |-> e]

\* A base content the patch is a diff of: the old lines of the patch at their
\* old line numbers, other lines 100 + k, and tail lines after the last one.
BaseFor(filePatch, tail) ==
  LET all == ParseDiff(filePatch)
      olds == {all[k].oldLineNum : k \in 1..Len(all)} \ {null}
      maxOld == IF olds = {} THEN 0 ELSE CHOOSE m \in olds : \A o \in olds : o <= m
      LineOf(k) == IF k \in olds
                     THEN all[CHOOSE i \in 1..Len(all) : all[i].oldLineNum = k
                              /\ \A j \in 1..(i - 1) : all[j].oldLineNum # k].content.text
                     ELSE 100 + k
  IN JoinLines([k \in 1..(maxOld + tail) |-> LineOf(k)])

\* ---------------------------------------------------------------- Spec
Init ==
  /\ pc = "patch"
  /\ patch = <<>>
  /\ comments = <<>>
  /\ hunks = <<>>
  /\ baseContent = <<0>>
  /\ newContent = <<0>>
  /\ BotIdle

\* The pull request's diff of the file grows by one line.
AddLine ==
  /\ pc = "patch"
  /\ Len(patch) < MaxPatchLen
  /\ \E line \in PatchLines(Len(patch) + 1) : patch' = Append(patch, line)
  /\ UNCHANGED <<pc, comments, hunks, baseContent, newContent>>
  /\ UNCHANGED botVars

\* extractChanges for a comment on new lines s..e.
ExtractChanges ==
  /\ pc = "patch"
  /\ \E s \in 1..MaxLine, e \in 1..MaxLine :
       /\ s <= e
       /\ comments' = <<Comment("RIGHT", s, e)>>
       /\ hunks' = extractChanges(patch, s, e)
  /\ pc' = IF hunks' = <<>> THEN "notfound" ELSE "extracted"
  /\ UNCHANGED <<patch, baseContent, newContent>>
  /\ UNCHANGED botVars

\* mergeBatchComments for a batch of one comment on lines s..e of a side.
MergeBatch ==
  /\ pc = "patch"
  /\ \E side \in {"LEFT", "RIGHT"}, s \in 1..MaxLine, e \in 1..MaxLine :
       /\ s <= e
       /\ comments' = <<Comment(side, s, e)>>
       /\ hunks' = mergeBatchComments(patch, comments')
  /\ pc' = IF hunks' = <<>> THEN "notfound" ELSE "extracted"
  /\ UNCHANGED <<patch, baseContent, newContent>>
  /\ UNCHANGED botVars

\* commitChanges on the extracted change: reads the base content and applies
\* the hunks one after the other.
CommitChanges ==
  /\ pc = "extracted"
  /\ \E tail \in Tails : baseContent' = BaseFor(patch, tail)
  /\ newContent' = ApplyAll(baseContent', hunks)
  /\ pc' = "committed"
  /\ UNCHANGED <<patch, comments, hunks>>
  /\ UNCHANGED botVars

Next == AddLine \/ ExtractChanges \/ MergeBatch

Spec == Init /\ [][Next]_vars

\* ------------------------------------------------------- SpecRoundTrip
\* The patch is the diff of a base file, as the pull request gives it: it
\* begins with a header, the hunks are in ascending order and do not overlap,
\* and the hunk of a new file (old start 0) has no old lines.
DiffOfBase(filePatch) ==
  /\ filePatch # <<>>
  /\ filePatch[1].hdr # <<>>
  /\ \A n \in 1..Len(filePatch) :
       LET before == ParseLines(filePatch, n - 1)
           header == parseHunkHeader(filePatch[n])
       IN IF header # nullHeader
            THEN /\ header.oldStart >= before.currentOldLine
                 /\ header.newStart >= before.currentNewLine
                 /\ (n > 1 => header.oldStart >= 1)
            ELSE /\ filePatch[n].mark \in {"+", "-", " "}
                 /\ (before.currentOldLine = 0 => filePatch[n].mark = "+")

\* The diff of the base file grows by one line.
AddDiffLine ==
  /\ pc = "patch"
  /\ Len(patch) < MaxPatchLen
  /\ \E line \in PatchLines(Len(patch) + 1) :
       /\ DiffOfBase(Append(patch, line))
       /\ patch' = Append(patch, line)
  /\ UNCHANGED <<pc, comments, hunks, baseContent, newContent>>
  /\ UNCHANGED botVars

NextRoundTrip == AddDiffLine \/ ExtractChanges \/ MergeBatch \/ CommitChanges

SpecRoundTrip == Init /\ [][NextRoundTrip]_vars

\* ----------------------------------------------------------- SpecApply
\* applyHunk and commitChanges on hunks the caller supplies.
Bases == {JoinLines([k \in 1..n |-> 100 + k]) : n \in 0..MaxBase}

RECURSIVE Bodies(_, _, _)
\* The bodies of at most n lines over the marks; the text of line k of hunk
\* number h is 10 * h + k.
Bodies(marks, n, h) ==
  IF n = 0 THEN {<<>>}
  ELSE LET shorter == Bodies(marks, n - 1, h) IN
       shorter \cup {Append(b, BodyLine(m, 10 * h + Len(b) + 1)) :
                       b \in {x \in shorter : Len(x) = n - 1}, m \in marks}

RECURSIVE CountMarks(_, _)
CountMarks(body, marks) ==
  IF body = <<>> THEN 0
  ELSE CountMarks(Tail(body), marks) + (IF Head(body).mark \in marks THEN 1 ELSE 0)

Hunk(os, ol, ns, nl, body) ==
  [oldStart |-> os, oldLines |-> ol, newStart |-> ns, newLines |-> nl,
   content |-> <<HeaderLine(os, ol, ns, nl)>> \o body]

\* Any hunk object: the fields are independent of the body.
AnyHunks ==
  {Hunk(os, ol, os, CountMarks(body, {"+", " ", ""}), body) :
     os \in 0..(MaxBase + 1), ol \in 0..MaxOldLines, body \in Bodies(ApplyMarks, MaxBody, 1)}

\* Hunks whose counts are those of the body.
SeqHunks(h) ==
  {Hunk(os, CountMarks(body, {"-", " "}), os, CountMarks(body, {"+", " "}), body) :
     os \in 1..(MaxBase + 1), body \in Bodies({"+", "-", " "}, MaxSeqBody, h)}

InitApply ==
  /\ pc = "hunks"
  /\ patch = <<>>
  /\ comments = <<>>
  /\ hunks = <<>>
  /\ baseContent \in Bases
  /\ newContent = baseContent
  /\ BotIdle

\* The caller supplies one hunk object.
SupplyHunk ==
  /\ pc = "hunks"
  /\ hunks = <<>>
  /\ \E h \in AnyHunks : hunks' = <<h>>
  /\ UNCHANGED <<pc, patch, comments, baseContent, newContent>>
  /\ UNCHANGED botVars

\* The caller supplies a list of hunks in ascending order of oldStart, one
\* after the other.
SupplyNextHunk ==
  /\ pc = "hunks"
  /\ Len(hunks) < MaxHunks
  /\ \A k \in 1..Len(hunks) : hunks[k] \in SeqHunks(k)
  /\ \E h \in SeqHunks(Len(hunks) + 1) :
       /\ (hunks # <<>> => h.oldStart > hunks[Len(hunks)].oldStart)
       /\ hunks' = Append(hunks, h)
  /\ UNCHANGED <<pc, patch, comments, baseContent, newContent>>
  /\ UNCHANGED botVars

\* The hunk loop of commitChanges on the supplied hunks.
ApplyHunks ==
  /\ pc = "hunks"
  /\ hunks # <<>>
  /\ newContent' = ApplyAll(baseContent, hunks)
  /\ pc' = "committed"
  /\ UNCHANGED <<patch, comments, hunks, baseContent>>
  /\ UNCHANGED botVars

NextApply == SupplyHunk \/ SupplyNextHunk \/ ApplyHunks

SpecApply == InitApply /\ [][NextApply]_vars

\* ----------------------------------------------------------- SpecMerge
\* mergeBatchComments on a batch of several comments on one file, both sides.
\* The diff of the file: one hunk with a context line, a replacement and a
\* context line (old lines 1..3, new lines 1..3).
MergePatches ==
  {<<HeaderLine(1, null, 1, null), BodyLine(" ", 1), BodyLine("-", 2), BodyLine("+", 3),
     BodyLine(" ", 4)>>}

\* A third diff: old line 1 deleted, two context lines and an added line
\* (old lines 1..3, new lines 1..3).
InsertionPatch ==
  <<HeaderLine(1, null, 1, null), BodyLine("-", 1), BodyLine(" ", 2), BodyLine(" ", 3),
    BodyLine("+", 4)>>

InitMerge ==
  /\ pc = "batch"
  /\ patch \in MergePatches
  /\ comments = <<>>
  /\ hunks = <<>>
  /\ baseContent = <<0>>
  /\ newContent = <<0>>
  /\ BotIdle

\* getBatchComments finds one more comment of the batch (index.ts 440-455).
AddComment ==
  /\ pc = "batch"
  /\ Len(comments) < MaxRanges
  /\ \E side \in {"LEFT", "RIGHT"}, s \in 1..MaxRangeLine, e \in 1..MaxRangeLine :
       /\ s <= e
       /\ comments' = Append(comments, Comment(side, s, e))
  /\ UNCHANGED <<pc, patch, hunks, baseContent, newContent>>
  /\ UNCHANGED botVars

\* mergeBatchComments on the comments of the batch.
MergeComments ==
  /\ pc = "batch"
  /\ comments # <<>>
  /\ hunks' = mergeBatchComments(patch, comments)
  /\ pc' = IF hunks' = <<>> THEN "notfound" ELSE "extracted"
  /\ UNCHANGED <<patch, comments, baseContent, newContent>>
  /\ UNCHANGED botVars

NextMerge == AddComment \/ MergeComments

SpecMerge == InitMerge /\ [][NextMerge]_vars

\* ------------------------------------------------------- SpecInsertion
\* mergeBatchComments on a batch of several comments on a file whose diff
\* has an added line after context lines.
InitInsertion ==
  /\ pc = "batch"
  /\ patch = InsertionPatch
  /\ comments = <<>>
  /\ hunks = <<>>
  /\ baseContent = <<0>>
  /\ newContent = <<0>>
  /\ BotIdle

SpecInsertion == InitInsertion /\ [][NextMerge]_vars

\* ----------------------------------------------------------- SpecBatch
\* spliceBatch for an explicit batch on a pull request with two files.
\* A second diff: old line 1 replaced by new line 1, no other line.
ShortPatch == <<HeaderLine(1, null, 1, null), BodyLine("-", 1), BodyLine("+", 2)>>

FilePatches == MergePatches \cup {ShortPatch, <<>>}
BatchLines == {1, 3}

\* The review comments a reviewer can post: for batch "a" on one line of the
\* new side or on the old side with no original line recorded, for another
\* batch, or without a command.
BatchReviewComments ==
  {ReviewComment(path, Body(TRUE, "a", FALSE), "RIGHT", l, l, l, l) :
     path \in Paths, l \in BatchLines}
  \cup {ReviewComment(path, Body(TRUE, "a", FALSE), "LEFT", 0, 0, null, null) : path \in Paths}
  \cup {ReviewComment("f", Body(TRUE, "b", FALSE), "RIGHT", 1, 1, 1, 1),
        ReviewComment("g", Body(FALSE, "", FALSE), "RIGHT", 1, 1, 1, 1)}

\* The CommentContext the handlers of issue comments and review bodies make
\* (path ''), or that of a review comment on a file.
ShipContext(path, body) == ReviewComment(path, body, "RIGHT", 0, 0, null, null)

\* The reply with a message: replyToComment for a review comment,
\* createIssueComment otherwise.
Reply(commentContext, message, ok) ==
  [op |-> IF commentContext.path # "" THEN "replyToComment" ELSE "createIssueComment",
   message |-> message, ok |-> ok]

InitBatch ==
  /\ pc = "idle"
  /\ patch = <<>>
  /\ comments = <<>>
  /\ hunks = <<>>
  /\ baseContent = <<0>>
  /\ newContent = <<0>>
  /\ prFiles \in [Paths -> FilePatches]
  /\ prComments = <<>>
  /\ call = noCall
  /\ files = <<>>
  /\ ops = <<>>
  /\ result = noResult
  /\ failed = FALSE
  /\ event = noEvent
  /\ branches = {}
  /\ branchName = 0
  /\ suffix = 0
  /\ checks = <<>>

\* A reviewer posts a review comment of a batch.
PostReviewComment ==
  /\ pc = "idle"
  /\ Len(prComments) < MaxBatch
  /\ \E comment \in BatchReviewComments : prComments' = Append(prComments, comment)
  /\ UNCHANGED <<pc, patch, comments, hunks, baseContent, newContent>>
  /\ UNCHANGED <<prFiles, call, files, ops, result, failed, event>>
  /\ UNCHANGED branchVars

\* A handler calls spliceBatch for batch "a" (index.ts 218-227, 306).
CallSpliceBatch ==
  /\ pc = "idle"
  /\ \E path \in {"", "f"} :
       call' = [batchId |-> "a", isSyntheticBatch |-> FALSE,
                shipCommentContext |-> ShipContext(path, Body(TRUE, "a", TRUE))]
  /\ pc' = "collect"
  /\ UNCHANGED <<patch, comments, hunks, baseContent, newContent>>
  /\ UNCHANGED <<prFiles, prComments, files, ops, result, failed, event>>
  /\ UNCHANGED branchVars

\* Step 1 (index.ts 691-693): the comments of the batch; the request of
\* collectBatchComments can throw.
CollectBatch ==
  /\ pc = "collect"
  /\ \/ /\ comments' = IF call.isSyntheticBatch THEN <<call.shipCommentContext>>
                         ELSE collectBatchComments(prComments, call.batchId)
        /\ pc' = "collected"
     \/ /\ ~call.isSyntheticBatch
        /\ pc' = "catch"
        /\ UNCHANGED comments
  /\ UNCHANGED <<patch, hunks, baseContent, newContent>>
  /\ UNCHANGED botVars

\* index.ts 695-707: no comment in the batch; the reply can throw.
ReplyNoComments ==
  /\ pc = "collected"
  /\ Len(comments) = 0
  /\ \/ /\ ops' = Append(ops, Reply(call.shipCommentContext, "No comments found in batch", TRUE))
        /\ result' = [success |-> FALSE, error |-> "No comments found in batch"]
        /\ pc' = "returned"
     \/ /\ ops' = Append(ops, Reply(call.shipCommentContext, "No comments found in batch", FALSE))
        /\ pc' = "catch"
        /\ UNCHANGED result
  /\ UNCHANGED <<patch, comments, hunks, baseContent, newContent>>
  /\ UNCHANGED <<prFiles, prComments, call, files, failed, event>>
  /\ UNCHANGED branchVars

\* Step 2 (index.ts 712): mergeBatchComments; a request of getFileDiff can throw.
MergeBatchedChanges ==
  /\ pc = "collected"
  /\ Len(comments) > 0
  /\ \/ /\ files' = BatchedChanges(prFiles, comments)
        /\ pc' = "merged"
     \/ /\ pc' = "catch"
        /\ UNCHANGED files
  /\ UNCHANGED <<patch, comments, hunks, baseContent, newContent>>
  /\ UNCHANGED <<prFiles, prComments, call, ops, result, failed, event>>
  /\ UNCHANGED branchVars

\* index.ts 714-726: no file with a hunk; the reply can throw.
ReplyNoChanges ==
  /\ pc = "merged"
  /\ Len(files) = 0
  /\ \/ /\ ops' = Append(ops, Reply(call.shipCommentContext, "Could not extract changes from batch", TRUE))
        /\ result' = [success |-> FALSE, error |-> "Could not extract changes from batch"]
        /\ pc' = "returned"
     \/ /\ ops' = Append(ops, Reply(call.shipCommentContext, "Could not extract changes from batch", FALSE))
        /\ pc' = "catch"
        /\ UNCHANGED result
  /\ UNCHANGED <<patch, comments, hunks, baseContent, newContent>>
  /\ UNCHANGED <<prFiles, prComments, call, files, failed, event>>
  /\ UNCHANGED branchVars

\* One request of steps 3 and 4 that writes (createSplicePr, index.ts 607-667):
\* it is made, or it throws.
WriteStep(at, op, next) ==
  /\ pc = at
  /\ \/ /\ ops' = Append(ops, [op |-> op, message |-> "", ok |-> TRUE])
        /\ pc' = next
     \/ /\ ops' = Append(ops, [op |-> op, message |-> "", ok |-> FALSE])
        /\ pc' = "catch"
  /\ UNCHANGED <<patch, comments, hunks, baseContent, newContent>>
  /\ UNCHANGED <<prFiles, prComments, call, files, result, failed, event>>
  /\ UNCHANGED branchVars

\* Step 3 and the head of createSplicePr (index.ts 729, 593-599): the reads of
\* getPrDetails, which can throw, and the first branch name.
GetPrDetails ==
  /\ pc = "merged"
  /\ Len(files) > 0
  /\ \/ /\ pc' = "exists"
        /\ branchName' = 1
        /\ suffix' = 2
        /\ checks' = <<>>
     \/ /\ pc' = "catch"
        /\ UNCHANGED <<branchName, suffix, checks>>
  /\ UNCHANGED <<patch, comments, hunks, baseContent, newContent>>
  /\ UNCHANGED <<prFiles, prComments, call, files, ops, result, failed, event, branches>>

\* mutant: the suffix is incremented before the next name is made
BranchExists_SkipsName ==
  /\ pc = "exists"
  /\ \E exists \in (IF branchName \in branches THEN BOOLEAN ELSE {FALSE}) :
       /\ checks' = Append(checks, [name |-> branchName, exists |-> exists])
       /\ IF exists
            THEN /\ branchName' = suffix + 1
                 /\ suffix' = suffix + 2
                 /\ pc' = "exists"
            ELSE /\ pc' = "branch"
                 /\ UNCHANGED <<branchName, suffix>>
  /\ UNCHANGED <<patch, comments, hunks, baseContent, newContent>>
  /\ UNCHANGED <<prFiles, prComments, call, files, ops, result, failed, event, branches>>

\* One test of the loop of createSplicePr (index.ts 601-605) with branchExists
\* (github.ts 340-356): true when the request finds the ref, false when the
\* request throws, which it does when the branch does not exist and can do
\* otherwise.
BranchExists ==
  /\ pc = "exists"
  /\ \E exists \in (IF branchName \in branches THEN BOOLEAN ELSE {FALSE}) :
       /\ checks' = Append(checks, [name |-> branchName, exists |-> exists])
       /\ IF exists
            THEN /\ branchName' = suffix
                 /\ suffix' = suffix + 1
                 /\ pc' = "exists"
            ELSE /\ pc' = "branch"
                 /\ UNCHANGED <<branchName, suffix>>
  /\ UNCHANGED <<patch, comments, hunks, baseContent, newContent>>
  /\ UNCHANGED <<prFiles, prComments, call, files, ops, result, failed, event, branches>>

\* index.ts 607-609, github.ts createBranch: the ref of branchName is made
\* from the base branch; the request throws when the ref exists, and can
\* throw otherwise.
CreateBranch ==
  /\ pc = "branch"
  /\ \/ /\ branchName \notin branches
        /\ ops' = Append(ops, [op |-> "createBranch", message |-> "", ok |-> TRUE,
                               branch |-> branchName])
        /\ branches' = branches \cup {branchName}
        /\ pc' = "commit"
     \/ /\ ops' = Append(ops, [op |-> "createBranch", message |-> "", ok |-> FALSE,
                               branch |-> branchName])
        /\ pc' = "catch"
        /\ UNCHANGED branches
  /\ UNCHANGED <<patch, comments, hunks, baseContent, newContent>>
  /\ UNCHANGED <<prFiles, prComments, call, files, result, failed, event>>
  /\ UNCHANGED <<branchName, suffix, checks>>

\* mutant: the ref of the branch is not set to the commit
CommitFiles_NoUpdateRef == WriteStep("commit", "createCommit", "pullRequest")

\* commitChanges up to the commit (github.ts 128-187): reads of the base,
\* blobs, tree and commit; one of the requests can throw.
CommitFiles == WriteStep("commit", "createCommit", "updateRef")

\* commitChanges, the last request (github.ts 189-195): the ref of the branch
\* is set to the commit.
UpdateRef == WriteStep("updateRef", "updateRef", "pullRequest")

CreatePullRequest == WriteStep("pullRequest", "createPullRequest", "labels")

\* One optional request after the pull request (index.ts 644-654), made when
\* the instruction names a value for it; the request can throw.
OptionalStep(at, op, next) ==
  /\ pc = at
  /\ \/ /\ pc' = next
        /\ UNCHANGED ops
     \/ /\ ops' = Append(ops, [op |-> op, message |-> "", ok |-> TRUE])
        /\ pc' = next
     \/ /\ ops' = Append(ops, [op |-> op, message |-> "", ok |-> FALSE])
        /\ pc' = "catch"
  /\ UNCHANGED <<patch, comments, hunks, baseContent, newContent>>
  /\ UNCHANGED <<prFiles, prComments, call, files, result, failed, event>>
  /\ UNCHANGED branchVars

\* index.ts 644-648
AddLabels == OptionalStep("labels", "addLabels", "reviewers")

\* index.ts 650-654
RequestReviewers == OptionalStep("reviewers", "requestReviewers", "reply")

\* index.ts 656-671: the reply with the link, then the result.
ReplySuccess ==
  /\ pc = "reply"
  /\ \/ /\ ops' = Append(ops, Reply(call.shipCommentContext, "created", TRUE))
        /\ result' = [success |-> TRUE, error |-> ""]
        /\ pc' = "returned"
     \/ /\ ops' = Append(ops, Reply(call.shipCommentContext, "created", FALSE))
        /\ pc' = "catch"
        /\ UNCHANGED result
  /\ UNCHANGED <<patch, comments, hunks, baseContent, newContent>>
  /\ UNCHANGED <<prFiles, prComments, call, files, failed, event>>
  /\ UNCHANGED branchVars

\* mutant: the catch block logs the error and replies nothing
CatchError_NoReply ==
  /\ pc = "catch"
  /\ result' = [success |-> FALSE, error |-> "error"]
  /\ pc' = "returned"
  /\ UNCHANGED <<patch, comments, hunks, baseContent, newContent>>
  /\ UNCHANGED <<prFiles, prComments, call, files, ops, failed, event>>
  /\ UNCHANGED branchVars

\* index.ts 758-776: the catch block; the reply with the error can throw.
CatchError ==
  /\ pc = "catch"
  /\ \E ok \in BOOLEAN : ops' = Append(ops, Reply(call.shipCommentContext, "error", ok))
  /\ result' = [success |-> FALSE, error |-> "error"]
  /\ pc' = "returned"
  /\ UNCHANGED <<patch, comments, hunks, baseContent, newContent>>
  /\ UNCHANGED <<prFiles, prComments, call, files, failed, event>>
  /\ UNCHANGED branchVars

\* The handler after spliceBatch (index.ts 229-235, 308-314).
HandleResult ==
  /\ pc = "returned"
  /\ failed' = ~result.success
  /\ pc' = "done"
  /\ UNCHANGED <<patch, comments, hunks, baseContent, newContent>>
  /\ UNCHANGED <<prFiles, prComments, call, files, ops, result, event>>
  /\ UNCHANGED branchVars

SpliceBatchStep ==
  \/ CollectBatch \/ ReplyNoComments \/ MergeBatchedChanges \/ ReplyNoChanges
  \/ GetPrDetails \/ BranchExists \/ CreateBranch \/ CommitFiles \/ UpdateRef
  \/ CreatePullRequest \/ AddLabels \/ RequestReviewers
  \/ ReplySuccess \/ CatchError \/ HandleResult

NextBatch == PostReviewComment \/ CallSpliceBatch \/ SpliceBatchStep

SpecBatch == InitBatch /\ [][NextBatch]_vars

\* ---------------------------------------------------------- SpecCreate
\* createSplicePr (with the end of spliceBatch and of the handler) for the
\* changes of a batch of one comment, in a repository in which any of the
\* first MaxSuffix names of the branch can exist.
InitCreate ==
  /\ pc = "merged"
  /\ patch = <<>>
  /\ hunks = <<>>
  /\ baseContent = <<0>>
  /\ newContent = <<0>>
  /\ prFiles = [path \in Paths |-> IF path = "f" THEN ShortPatch ELSE <<>>]
  /\ prComments = <<ReviewComment("f", Body(TRUE, "a", FALSE), "RIGHT", 1, 1, 1, 1)>>
  /\ comments = prComments
  /\ \E path \in {"", "f"} :
       call = [batchId |-> "a", isSyntheticBatch |-> FALSE,
               shipCommentContext |-> ShipContext(path, Body(TRUE, "a", TRUE))]
  /\ files = BatchedChanges(prFiles, comments)
  /\ ops = <<>>
  /\ result = noResult
  /\ failed = FALSE
  /\ event = noEvent
  /\ branches \in SUBSET (1..MaxSuffix)
  /\ branchName = 0
  /\ suffix = 0
  /\ checks = <<>>

NextCreate ==
  \/ GetPrDetails \/ BranchExists \/ CreateBranch \/ CommitFiles \/ UpdateRef
  \/ CreatePullRequest \/ AddLabels \/ RequestReviewers
  \/ ReplySuccess \/ CatchError \/ HandleResult

SpecCreate == InitCreate /\ [][NextCreate]_vars

\* ------------------------------------------------------------- SpecBot
\* The workflow runs of the action on the events of a pull request.
EventNames == {"pull_request_review_comment", "issue_comment", "pull_request_review"}

\* The comment texts: no command, splice-bot, splice-bot batch:a,
\* splice-bot batch:a --ship.
EventBodies ==
  {Body(FALSE, "", FALSE), Body(TRUE, "", FALSE), Body(TRUE, "a", FALSE), Body(TRUE, "a", TRUE)}

InitBot ==
  /\ pc = "idle"
  /\ patch = <<>>
  /\ comments = <<>>
  /\ hunks = <<>>
  /\ baseContent = <<0>>
  /\ newContent = <<0>>
  /\ prFiles \in {[path \in Paths |-> IF path = "f" THEN filePatch ELSE <<>>] :
                    filePatch \in FilePatches}
  /\ prComments = <<>>
  /\ call = noCall
  /\ files = <<>>
  /\ ops = <<>>
  /\ result = noResult
  /\ failed = FALSE
  /\ event = noEvent
  /\ branches = {}
  /\ branchName = 0
  /\ suffix = 0
  /\ checks = <<>>

\* A comment or a review is posted on the pull request and starts a run of
\* the workflow; a review comment is on line 1 of file f.  The base name of
\* the branch holds the id of the comment (index.ts 303, 731), so no branch
\* of an earlier run has a name of this run.
ReceiveEvent ==
  /\ pc \in {"idle", "done"}
  /\ event.n < MaxEvents
  /\ \E name \in EventNames, body \in EventBodies :
       /\ event' = [n |-> event.n + 1, eventName |-> name, body |-> body,
                    path |-> IF name = "pull_request_review_comment" THEN "f" ELSE "",
                    line |-> IF name = "pull_request_review_comment" THEN 1 ELSE 0]
       /\ prComments' = IF name = "pull_request_review_comment"
                          THEN Append(prComments, ReviewComment("f", body, "RIGHT", 1, 1, 1, 1))
                          ELSE prComments
  /\ pc' = "event"
  /\ comments' = <<>>
  /\ call' = noCall
  /\ files' = <<>>
  /\ ops' = <<>>
  /\ result' = noResult
  /\ failed' = FALSE
  /\ branches' = {}
  /\ branchName' = 0
  /\ suffix' = 0
  /\ checks' = <<>>
  /\ UNCHANGED <<patch, hunks, baseContent, newContent, prFiles>>

\* handleSpliceComment up to the call of spliceBatch (index.ts 241-306).
HandleSpliceComment ==
  /\ pc = "event"
  /\ event.eventName = "pull_request_review_comment"
  /\ LET instruction == parseInstruction(event.body)
         commentContext == ReviewComment(event.path, event.body, "RIGHT",
                                         event.line, event.line, event.line, event.line)
     IN IF instruction = nullInstruction
          THEN pc' = "done" /\ UNCHANGED call
        ELSE IF instruction.batch # "" /\ ~instruction.ship
          THEN pc' = "done" /\ UNCHANGED call
        ELSE /\ call' = [batchId |-> IF instruction.batch # "" THEN instruction.batch ELSE "c",
                         isSyntheticBatch |-> instruction.batch = "",
                         shipCommentContext |-> commentContext]
             /\ pc' = "collect"
  /\ UNCHANGED <<patch, comments, hunks, baseContent, newContent>>
  /\ UNCHANGED <<prFiles, prComments, files, ops, result, failed, event>>
  /\ UNCHANGED branchVars

\* The handler of a comment on the pull request or of a review body up to the
\* call of spliceBatch.
HandleShipCommand(name) ==
  /\ pc = "event"
  /\ event.eventName = name
  /\ LET instruction == parseInstruction(event.body) IN
     IF instruction = nullInstruction
       THEN pc' = "done" /\ UNCHANGED call
     ELSE IF instruction.batch = "" \/ ~instruction.ship
       THEN pc' = "done" /\ UNCHANGED call
     ELSE /\ call' = [batchId |-> instruction.batch, isSyntheticBatch |-> FALSE,
                      shipCommentContext |-> ShipContext("", event.body)]
          /\ pc' = "collect"
  /\ UNCHANGED <<patch, comments, hunks, baseContent, newContent>>
  /\ UNCHANGED <<prFiles, prComments, files, ops, result, failed, event>>
  /\ UNCHANGED branchVars

\* index.ts 156-227
HandleIssueComment == HandleShipCommand("issue_comment")

\* index.ts 70-137
HandlePullRequestReview == HandleShipCommand("pull_request_review")

\* The steps of spliceBatch a run can take: the batch of a run is never empty.
NextBot ==
  \/ ReceiveEvent \/ HandleSpliceComment \/ HandleIssueComment \/ HandlePullRequestReview
  \/ CollectBatch \/ MergeBatchedChanges \/ ReplyNoChanges
  \/ GetPrDetails \/ BranchExists \/ CreateBranch \/ CommitFiles \/ UpdateRef
  \/ CreatePullRequest \/ AddLabels \/ RequestReviewers
  \/ ReplySuccess \/ CatchError \/ HandleResult

SpecBot == InitBot /\ [][NextBot]_vars

\* =============================================================== claims
\* The request of the state: its range, the parsed diff lines of the patch
\* and the body of the returned hunk.
Requested == pc \in {"extracted", "notfound", "committed"} /\ patch # <<>> /\ Len(comments) = 1
Returned == pc \in {"extracted", "committed"} /\ Len(comments) = 1 /\ Len(hunks) = 1
ReqRange == CommentRange(comments[1])
AllDiffLines == ParseDiff(patch)
HunkBody == Tail(hunks[1].content)
InReq(n) == n # null /\ n >= ReqRange.start /\ n <= ReqRange.end
InRange(r, n) == n # null /\ n >= r.start /\ n <= r.end
IsAdditionLine(line) == line.mark = "+"
IsKeptLine(line) == line.mark # "-"
IsOldLine(line) == line.mark # "+"
IsContextLine(line) == line.mark # "+" /\ line.mark # "-"
Contents(lines) == [k \in 1..Len(lines) |-> lines[k].content]
In(body, line) == \E k \in 1..Len(body) : body[k] = line

\* C3: the context and addition lines of the body of the returned hunk are
\* exactly the parsed context and addition lines whose new line number lies
\* in [startLine, endLine], in diff order.
C3_BodyNewLinesAreTheRange ==
  Returned =>
    LET r == ReqRange
        NewInRange(d) == InRange(r, d.newLineNum)
    IN SelectSeq(HunkBody, IsKeptLine) = Contents(SelectSeq(AllDiffLines, NewInRange))

C3_Witness ==
  /\ Returned
  /\ LET all == AllDiffLines
         body == HunkBody
     IN \E i, j, k \in 1..Len(all) :
          /\ all[i].type = "context" /\ InReq(all[i].newLineNum)
          /\ all[j].type = "addition" /\ ~InReq(all[j].newLineNum)
          /\ all[k].type = "deletion" /\ In(body, all[k].content)

\* C6: in every returned hunk oldLines is the number of context and deletion
\* lines of the body, newLines the number of context and addition lines, and
\* the header line of content parses to the four fields of the hunk.
C6_CountInvariant ==
  Returned =>
    LET body == HunkBody IN
    /\ hunks[1].oldLines = Len(SelectSeq(body, IsOldLine))
    /\ hunks[1].newLines = Len(SelectSeq(body, IsKeptLine))
    /\ parseHunkHeader(hunks[1].content[1]) =
         [oldStart |-> hunks[1].oldStart, oldLines |-> hunks[1].oldLines,
          newStart |-> hunks[1].newStart, newLines |-> hunks[1].newLines]

C6_Witness ==
  /\ Returned
  /\ hunks[1].oldLines = 2
  /\ hunks[1].newLines = 2
  /\ Len(HunkBody) = 3

\* C7: the result is null exactly when no parsed diff line has a new line
\* number in [startLine, endLine].
C7_NullIffNoLineInRange ==
  Requested =>
    LET all == AllDiffLines
        r == ReqRange
    IN (hunks = <<>>) <=> ~\E i \in 1..Len(all) : InRange(r, all[i].newLineNum)

\* a range outside the hunk of a patch with lines, deletions included
C7_Witness ==
  /\ pc = "notfound"
  /\ Len(comments) = 1
  /\ LET all == AllDiffLines
     IN \E i, j \in 1..Len(all) :
          all[i].type = "addition" /\ all[j].type = "deletion" /\ j < i

\* The range r is exactly the run of additions that follows the deletion at d.
ReplacementAt(all, r, d) ==
  LET k == r.end - r.start + 1 IN
  /\ all[d].type = "deletion"
  /\ d + k <= Len(all)
  /\ \A m \in 1..k : /\ all[d + m].type = "addition"
                     /\ all[d + m].newLineNum = r.start + m - 1
  /\ (d + k < Len(all) => all[d + k + 1].type # "addition")

\* C4: when the range is exactly the run of additions that directly follows a
\* deletion, the hunk contains every addition of the run and that deletion,
\* and no context line other than those with a new line number in the range.
C4_ReplacementTravelsTogether ==
  Requested =>
    LET all == AllDiffLines
        r == ReqRange
        SelectedContext(d) == d.type = "context" /\ InRange(r, d.newLineNum)
    IN \A d \in 1..Len(all) :
         ReplacementAt(all, r, d) =>
           /\ Returned
           /\ LET body == HunkBody IN
              /\ In(body, all[d].content)
              /\ \A m \in 1..(r.end - r.start + 1) : In(body, all[d + m].content)
              /\ Len(SelectSeq(body, IsContextLine)) = Len(SelectSeq(all, SelectedContext))

\* a replacement after a context line that stays out of the hunk
C4_Witness ==
  /\ Returned
  /\ LET all == AllDiffLines
         body == HunkBody
     IN \E d \in 2..Len(all) :
          /\ ReplacementAt(all, ReqRange, d)
          /\ all[d - 1].type = "context"
          /\ ~In(body, all[d - 1].content)

PrimaryOlds(all, r) ==
  {all[i].oldLineNum : i \in {j \in 1..Len(all) : InRange(r, all[j].newLineNum)}} \ {null}

InOldSpan(olds, n) ==
  /\ olds # {}
  /\ \E o \in olds : o <= n
  /\ \E o \in olds : n <= o + 1

ValidSingleHunk ==
  /\ Len(patch) >= 2
  /\ DiffOfBase(patch)
  /\ <<patch[1].hdr[1], patch[1].hdr[3]>> \in {<<0, 1>>, <<1, 1>>}
  /\ \A k \in 2..Len(patch) : patch[k].hdr = <<>>

\* The positions the extraction selects for the requested range.
SelectedSet(all, r) ==
  LET sel == SelectedLines(all, r.start, r.end)
  IN {sel[k] : k \in 1..Len(sel)}

RECURSIVE PartialNew(_, _, _)
\* The lines of the hunk region of the new file for the first n diff lines when
\* only the selected changes are made: a selected addition is present, a
\* selected deletion absent, every other old line stays.
PartialNew(all, selected, n) ==
  IF n = 0 THEN <<>>
  ELSE LET d == all[n] IN
       PartialNew(all, selected, n - 1) \o
         (IF d.type = "context" THEN <<d.content.text>>
          ELSE IF d.type = "deletion"
            THEN (IF n \in selected THEN <<>> ELSE <<d.content.text>>)
          ELSE (IF n \in selected THEN <<d.content.text>> ELSE <<>>))

ExpectedContent ==
  LET all == AllDiffLines
      base == SplitContent(baseContent)
      nOld == Len(SelectSeq(all, LAMBDA d : d.type # "addition"))
  IN JoinLines(PartialNew(all, SelectedSet(all, ReqRange), Len(all))
               \o SubSeq(base, nOld + 1, Len(base)))

\* C1: applying the extracted hunk to the base gives the base with the selected
\* changes made at their own position and every other line unchanged.
C1_RoundTrip ==
  (pc = "committed" /\ Len(comments) = 1 /\ Len(hunks) = 1 /\ ValidSingleHunk)
    => newContent = ExpectedContent

\* ---------------------------------------------------------- oldStart
\* The value of the running old line counter when diff line i was pushed.
OldCounterAt(i) ==
  LET n == CHOOSE m \in 1..Len(patch) :
             /\ Len(ParseLines(patch, m).allDiffLines) = i
             /\ Len(ParseLines(patch, m - 1).allDiffLines) = i - 1
  IN ParseLines(patch, n - 1).currentOldLine

\* C2: for a selection of additions only, oldStart is the value of the running
\* old line counter at the first selected addition (stated for the patches
\* in which that counter is a line number, 1 or more).
C2_OldStartCarriedForward ==
  (Returned /\ \A k \in 1..Len(HunkBody) : IsAdditionLine(HunkBody[k]))
    => LET all == AllDiffLines
           first == CHOOSE i \in 1..Len(all) :
                      /\ InReq(all[i].newLineNum)
                      /\ \A j \in 1..(i - 1) : ~InReq(all[j].newLineNum)
       IN OldCounterAt(first) >= 1 => hunks[1].oldStart = OldCounterAt(first)

\* --------------------------------------------------------------- side
\* C10: for a LEFT comment the lines are selected by their old line number: the
\* context and deletion lines of the hunk are the parsed lines whose old line
\* number lies in the range, and there is no hunk when there is none.
C10_LeftSideUsesOldNumbers ==
  (Requested /\ comments[1].side = "LEFT") =>
    LET InOld(d) == InReq(d.oldLineNum)
        olds == SelectSeq(AllDiffLines, InOld)
    IN IF olds = <<>> THEN hunks = <<>>
       ELSE /\ Len(hunks) = 1
            /\ SelectSeq(HunkBody, IsOldLine) = Contents(olds)

\* ------------------------------------------------------------ applying
InsertionHunk(h) ==
  /\ h.oldLines = 0
  /\ Len(h.content) = 2
  /\ h.content[2].mark = "+"

\* C8: two insertion hunks with oldStart 3 and 4, applied in order to a base
\* of two lines, give the two base lines, the line of the first hunk and the
\* line of the second hunk.
C8_TwoInsertionsAfterLineTwo ==
  (/\ pc = "committed"
   /\ SplitContent(baseContent) = <<101, 102>>
   /\ Len(hunks) = 2
   /\ InsertionHunk(hunks[1]) /\ hunks[1].oldStart = 3
   /\ InsertionHunk(hunks[2]) /\ hunks[2].oldStart = 4)
    => newContent = <<101, 102, hunks[1].content[2].text, hunks[2].content[2].text>>

C8_Witness ==
  /\ pc = "committed"
  /\ baseContent = <<101, 102>>
  /\ Len(hunks) = 2
  /\ InsertionHunk(hunks[1]) /\ hunks[1].oldStart = 3
  /\ InsertionHunk(hunks[2]) /\ hunks[2].oldStart = 4
  /\ Len(newContent) = 4

\* C9: for a hunk with oldStart - 1 + oldLines <= number of base lines the
\* result is the first oldStart - 1 base lines, the texts of the context and
\* addition lines of the body in order, and the base lines from index
\* oldStart - 1 + oldLines on.
C9_ApplyHunkShape ==
  (pc = "committed" /\ patch = <<>> /\ Len(hunks) = 1) =>
    LET base == SplitContent(baseContent)
        h == hunks[1]
        kept == SelectSeq(Tail(h.content), LAMBDA l : l.mark \in {"+", " ", ""})
    IN h.oldStart - 1 + h.oldLines <= Len(base) =>
         newContent = JoinLines(SubSeq(base, 1, h.oldStart - 1)
                                \o [k \in 1..Len(kept) |-> kept[k].text]
                                \o SubSeq(base, Max(1, h.oldStart + h.oldLines), Len(base)))

\* ------------------------------------------------------------- merging
Merged == pc \in {"extracted", "notfound"}

OldLinesOf(h) == h.oldStart..(h.oldStart + h.oldLines - 1)

\* C12: the hunks mergeBatchComments gives for the file are in ascending order
\* of oldStart and no two of them cover a common old line, for every batch,
\* batches with comments of both sides included.
C12_HunksAscendingDisjoint ==
  pc = "extracted" =>
    \A i, j \in 1..Len(hunks) :
      i < j => /\ hunks[i].oldStart <= hunks[j].oldStart
               /\ OldLinesOf(hunks[i]) \cap OldLinesOf(hunks[j]) = {}

\* ------------------------------------------------------- batch of files
\* The selection of the comment resolves to a hunk: its file has a diff, its
\* line numbers are known and a line of the diff lies in its range.
Resolves(comment) ==
  LET r == CommentRange(comment)
      filePatch == prFiles[comment.path]
  IN /\ filePatch # <<>>
     /\ r.start # 0 /\ r.end # 0
     /\ extractHunkForLineRange(filePatch, r.start, r.end) # nullHunk

SomeResolves(path) ==
  \E i \in 1..Len(comments) : comments[i].path = path /\ Resolves(comments[i])

NoChangesError == "Could not extract changes from batch"

\* C13: when mergeBatchComments has returned, the files of the result are the
\* files of the batch that have a diff and a selection resolving to a hunk,
\* each once and with its hunks, whatever the other files of the batch; the
\* run ends with the error that no changes could be extracted, replied to
\* the comment, only when no file of the batch yields a hunk.
C13_FilesWithoutHunksAreLeftOut ==
  /\ pc = "merged" =>
       /\ \A path \in Paths :
            (\E k \in 1..Len(files) : files[k].path = path) <=> SomeResolves(path)
       /\ \A k \in 1..Len(files) : Len(files[k].hunks) > 0
       /\ \A j, k \in 1..Len(files) : files[j].path = files[k].path => j = k
  /\ result.error = NoChangesError =>
       /\ \A path \in Paths : ~SomeResolves(path)
       /\ ops # <<>> /\ ops[Len(ops)].message = NoChangesError

\* the first file of the batch has no diff and the second file is returned
C13_Witness ==
  /\ pc = "merged"
  /\ Len(comments) = 2
  /\ comments[1].path = "f" /\ prFiles["f"] = <<>>
  /\ Len(files) = 1 /\ files[1].path = "g"

\* --------------------------------------------------------- coordinates
Carried(all, field) ==
  LET Has(d) == d[field] # null
      lines == SelectSeq(all, Has)
  IN [k \in 1..Len(lines) |-> lines[k][field]]

NonDecreasing(seq) == \A k \in 1..(Len(seq) - 1) : seq[k] <= seq[k + 1]

\* C14: for a valid diff the old line numbers of the parsed lines that carry
\* one are non-decreasing in sequence order, and so are the new line numbers;
\* an addition carries no old number, a deletion no new number, a context
\* line both.
C14_CoordinateMonotonicity ==
  DiffOfBase(patch) =>
    LET all == ParseDiff(patch) IN
    /\ NonDecreasing(Carried(all, "oldLineNum"))
    /\ NonDecreasing(Carried(all, "newLineNum"))
    /\ \A i \in 1..Len(all) :
         /\ all[i].type = "addition" => all[i].oldLineNum = null /\ all[i].newLineNum # null
         /\ all[i].type = "deletion" => all[i].oldLineNum # null /\ all[i].newLineNum = null
         /\ all[i].type = "context" => all[i].oldLineNum # null /\ all[i].newLineNum # null

\* a diff of two hunks with a deletion in the first and a context line in
\* the second, parsed for a request
C14_Witness ==
  /\ pc = "extracted"
  /\ DiffOfBase(patch)
  /\ Len(patch) = 4
  /\ patch[3].hdr # <<>>
  /\ LET all == ParseDiff(patch) IN
     /\ Len(all) = 2
     /\ all[1].type = "deletion"
     /\ all[2].type = "context" /\ all[2].oldLineNum = 3 /\ all[2].newLineNum = 4

\* -------------------------------------------------------------- failure
IsReply(o) == o.op \in {"replyToComment", "createIssueComment"}
IsErrorReply(o) == IsReply(o) /\ o.message # "created"

\* C15: when spliceBatch has returned a failure, a reply with an error message
\* to the triggering comment was attempted, and when the handler has ended
\* the run is marked failed, whether or not the reply was posted.
C15_FailureIsRepliedAndMarked ==
  ((pc = "returned" \/ pc = "done") /\ ~result.success) =>
    /\ \E k \in 1..Len(ops) : IsErrorReply(ops[k])
    /\ pc = "done" => failed

\* a run that failed at the creation of the branch and whose error reply
\* failed too, marked failed
C15_Witness ==
  /\ pc = "done"
  /\ failed
  /\ Len(ops) = 2
  /\ ops[1].op = "createBranch" /\ ~ops[1].ok
  /\ IsErrorReply(ops[2]) /\ ~ops[2].ok

\* --------------------------------------------------------------- ship
ShipCommand == event.body.cmd /\ event.body.batch # "" /\ event.body.ship
BatchCommand == event.body.cmd /\ event.body.batch # "" /\ ~event.body.ship
Creates(o) == o.op \in {"createBranch", "createPullRequest"}

\* C16: when the run of a command batch:<id> --ship has ended, spliceBatch was
\* run for the batch <id>; when the run of a review comment batch:<id> without
\* --ship has ended, no branch and no pull request was created.
C16_ShipRunsTheBatch ==
  pc = "done" =>
    /\ ShipCommand => (call.batchId = event.body.batch /\ ~call.isSyntheticBatch)
    /\ BatchCommand => \A k \in 1..Len(ops) : ~Creates(ops[k])

\* ---------------------------------------------------- single-pass applier
KeptTexts(h) ==
  LET Kept(l) == l.mark \in {"+", " ", ""}
      kept == SelectSeq(Tail(h.content), Kept)
  IN [k \in 1..Len(kept) |-> kept[k].text]

RECURSIVE SinglePass(_, _, _)
\* The first n hunks applied in one pass over the base lines: the lines made
\* so far and the position in the base of the next line to copy.
SinglePass(base, hs, n) ==
  IF n = 0 THEN [out |-> <<>>, pos |-> 1]
  ELSE LET before == SinglePass(base, hs, n - 1)
           h == hs[n]
       IN [out |-> before.out \o SubSeq(base, before.pos, h.oldStart - 1) \o KeptTexts(h),
           pos |-> h.oldStart + h.oldLines]

SinglePassContent(base, hs) ==
  LET last == SinglePass(base, hs, Len(hs))
  IN JoinLines(last.out \o SubSeq(base, last.pos, Len(base)))

\* The hunks are in ascending order of oldStart, lie in the base and no two
\* of them cover a common old line.
SortedInBase(base, hs) ==
  /\ \A k \in 1..Len(hs) :
       /\ hs[k].oldStart >= 1
       /\ hs[k].oldStart - 1 + hs[k].oldLines <= Len(base)
       /\ hs[k].oldLines = Len(SelectSeq(Tail(hs[k].content), IsOldLine))
  /\ \A k \in 1..(Len(hs) - 1) :
       /\ hs[k].oldStart <= hs[k + 1].oldStart
       /\ hs[k].oldStart + hs[k].oldLines <= hs[k + 1].oldStart

\* C17: for hunks in ascending order of oldStart, in coordinates of the base
\* and without overlap, applying them one after the other to the running
\* content gives the content of the single-pass applier.
C17_SequentialEqualsSinglePass ==
  (pc = "committed" /\ patch = <<>> /\ SortedInBase(SplitContent(baseContent), hunks))
    => newContent = SinglePassContent(SplitContent(baseContent), hunks)

\* ----------------------------------------------------------- contiguity
\* The parsed diff lines of the body of the returned hunk (a body line is the
\* content of one diff line).
BodyDiffLines ==
  LET all == AllDiffLines
      body == HunkBody
  IN [k \in 1..Len(body) |-> all[CHOOSE i \in 1..Len(all) : all[i].content = body[k]]]

Run(start, n) == [k \in 1..n |-> start + k - 1]

\* C18: the body lines of a returned hunk that carry an old number have the
\* numbers oldStart, ..., oldStart + oldLines - 1 in order, and those that
\* carry a new number have newStart, ..., newStart + newLines - 1.
C18_ContiguousRun ==
  (Returned /\ DiffOfBase(patch)) =>
    LET lines == BodyDiffLines IN
    /\ Carried(lines, "oldLineNum") = Run(hunks[1].oldStart, hunks[1].oldLines)
    /\ Carried(lines, "newLineNum") = Run(hunks[1].newStart, hunks[1].newLines)

\* ------------------------------------------------------ deletion runs
\* The diff lines k..j are deletions and line j + 1 is an addition in the range.
DeletionRunBefore(all, r, k, j) ==
  /\ k <= j /\ j + 1 <= Len(all)
  /\ \A m \in k..j : all[m].type = "deletion"
  /\ all[j + 1].type = "addition" /\ InRange(r, all[j + 1].newLineNum)

\* C19 as stated: every deletion of a run of two or more deletions directly
\* before a selected addition is in the returned hunk.
C19_WholeDeletionRunIncluded ==
  Returned =>
    LET all == AllDiffLines
        r == ReqRange
        body == HunkBody
    IN \A k, j \in 1..Len(all) :
         (k < j /\ DeletionRunBefore(all, r, k, j)) => In(body, all[k].content)

\* C19 amended: of the deletions directly before a selected addition the last
\* one is in the returned hunk; an earlier one is in it exactly when its old
\* line number lies between the smallest old line number of the primary
\* selection and the largest plus one.
C19_LastDeletionOfRunIncluded ==
  Returned =>
    LET all == AllDiffLines
        r == ReqRange
        body == HunkBody
        olds == PrimaryOlds(all, r)
    IN \A k, j \in 1..Len(all) :
         DeletionRunBefore(all, r, k, j) =>
           IF k = j THEN In(body, all[k].content)
           ELSE In(body, all[k].content) <=> InOldSpan(olds, all[k].oldLineNum)

\* two deletions before the selected addition: the second is in the hunk,
\* the first is not
C19_Witness ==
  /\ Returned
  /\ LET all == AllDiffLines
         body == HunkBody
     IN \E j \in 2..Len(all) :
          /\ DeletionRunBefore(all, ReqRange, j - 1, j)
          /\ In(body, all[j].content)
          /\ ~In(body, all[j - 1].content)

\* ----------------------------------------------------------- minimality
\* C20: a deletion is in the returned hunk only if the next diff line is in
\* the hunk too or its old line number lies between the smallest and the
\* largest old line number of the lines selected by the primary pass.
C20_DeletionsOnlyWhereNeeded ==
  Returned =>
    LET all == AllDiffLines
        r == ReqRange
        body == HunkBody
        olds == PrimaryOlds(all, r)
    IN \A i \in 1..Len(all) :
         (all[i].type = "deletion" /\ In(body, all[i].content)) =>
           \/ i + 1 <= Len(all) /\ In(body, all[i + 1].content)
           \/ /\ \E o \in olds : o <= all[i].oldLineNum
              /\ \E o \in olds : all[i].oldLineNum <= o

\* ------------------------------------------------------------ newStart
\* The new line numbers of the parsed diff lines that lie in the range.
NewsInRange(all, r) ==
  {all[i].newLineNum : i \in {j \in 1..Len(all) : InRange(r, all[j].newLineNum)}}

\* C21: every returned hunk has newLines >= 1 and startLine <= newStart <=
\* endLine, newStart is the smallest new line number of the diff that lies in
\* the range, and the body has a line that is not a deletion.
C21_NewStartIsFirstLineInRange ==
  Returned =>
    LET news == NewsInRange(AllDiffLines, ReqRange)
        h == hunks[1]
    IN /\ h.newLines >= 1
       /\ ReqRange.start <= h.newStart /\ h.newStart <= ReqRange.end
       /\ news # {}
       /\ h.newStart \in news /\ \A n \in news : h.newStart <= n
       /\ \E k \in 1..Len(HunkBody) : HunkBody[k].mark # "-"

\* a hunk that begins with a deletion, for a range that begins before the
\* first new line of the diff
C21_Witness ==
  /\ Returned
  /\ HunkBody[1].mark = "-"
  /\ hunks[1].newStart > ReqRange.start

\* ----------------------------------------------------------- coalescing
\* The lines the ranges of a list cover.
Covered(ranges) == UNION {ranges[k].start..ranges[k].end : k \in 1..Len(ranges)}

\* C22: for the ranges of one side of a batch, the coalesced ranges cover
\* exactly the lines the ranges cover, and each of them begins at least two
\* lines after the end of the one before it (so they are in strictly ascending
\* order of start, and ranges that touch are made one).
C22_MinimalCover ==
  Merged =>
    \A side \in {"LEFT", "RIGHT"} :
      LET ranges == CollectRanges(comments, side) IN
      Len(ranges) > 0 =>
        LET merged == MergeRanges(ranges) IN
        /\ Covered(merged) = Covered(ranges)
        /\ \A k \in 1..Len(merged) : merged[k].start <= merged[k].end
        /\ \A k \in 1..(Len(merged) - 1) :
             /\ merged[k].start < merged[k + 1].start
             /\ merged[k + 1].start > merged[k].end + 1

\* a batch merged whose first range ends on the line before the second one:
\* the two are made one range
C22_Witness ==
  /\ Merged
  /\ LET ranges == CollectRanges(comments, "RIGHT") IN
     /\ Len(ranges) = 2
     /\ ranges[1].end + 1 = ranges[2].start
     /\ Len(MergeRanges(ranges)) = 1

\* The permutations of 1..n, for every length a list of ranges can have.
RangeOrders ==
  [n \in 0..MaxRanges |-> {f \in [1..n -> 1..n] : \A i, j \in 1..n : f[i] = f[j] => i = j}]

Perms(n) == RangeOrders[n]

\* C23: the coalesced ranges of one side are the same for every order of the
\* selections of the batch, also when ranges with the same start have
\* different ends.
C23_OrderIndependent ==
  Merged =>
    \A side \in {"LEFT", "RIGHT"} :
      LET ranges == CollectRanges(comments, side)
          merged == MergeRanges(ranges)
      IN Len(ranges) > 0 =>
           \A f \in Perms(Len(ranges)) :
             MergeRanges([k \in 1..Len(ranges) |-> ranges[f[k]]]) = merged

\* a batch merged with two ranges of the same start, the longer one first
C23_Witness ==
  /\ Merged
  /\ LET ranges == CollectRanges(comments, "LEFT") IN
     /\ Len(ranges) = 3
     /\ ranges[1].start = ranges[2].start
     /\ ranges[1].end > ranges[2].end

\* ------------------------------------------------------ order in a side
\* C24: the hunks mergeBatchComments makes for the ranges of one side of the
\* file are in ascending order of oldStart.
C24_SideHunksAscending ==
  Merged =>
    \A side \in {"LEFT", "RIGHT"} :
      LET hs == SideHunks(patch, comments, side) IN
      \A k \in 1..(Len(hs) - 1) : hs[k].oldStart <= hs[k + 1].oldStart

\* ------------------------------------------------------------ diff order
\* C25: every line of the body of a returned hunk is the content of a parsed
\* diff line, and the positions in the diff of the body lines are strictly
\* ascending: the lines are in diff order, the deletions of the second pass
\* included, and no diff line is there twice.  (The text of a patch line is
\* its position in the patch, so the content names the diff line.)
C25_BodyInDiffOrder ==
  Returned =>
    LET all == AllDiffLines
        body == HunkBody
        Pos(k) == CHOOSE i \in 1..Len(all) : all[i].content = body[k]
    IN /\ \A k \in 1..Len(body) : \E i \in 1..Len(all) : all[i].content = body[k]
       /\ \A k \in 1..(Len(body) - 1) : Pos(k) < Pos(k + 1)

\* a deletion of the second pass between two lines of the first pass
C25_Witness ==
  /\ Returned
  /\ Len(HunkBody) = 3
  /\ HunkBody[1].mark = " "
  /\ HunkBody[2].mark = "-"
  /\ HunkBody[3].mark = "+"

\* ------------------------------------------------------- several hunks
\* C26: the diff line made from the body line that follows a hunk header
\* carries the old start of that header (unless it is an addition) and its new
\* start (unless it is a deletion), whatever stands before the header; and a
\* request whose range holds the new start of the header returns a hunk with
\* that line.
C26_CountersResetAtHeader ==
  LET all == ParseDiff(patch) IN
  \A n \in 1..(Len(patch) - 1) :
    LET header == parseHunkHeader(patch[n]) IN
    (header # nullHeader /\ parseHunkHeader(patch[n + 1]) = nullHeader) =>
      LET d == all[Len(ParseLines(patch, n + 1).allDiffLines)] IN
      /\ d.content = patch[n + 1]
      /\ d.type # "addition" => d.oldLineNum = header.oldStart
      /\ d.type # "deletion" => d.newLineNum = header.newStart
      /\ (Requested /\ d.type # "deletion" /\ InReq(header.newStart))
           => (Returned /\ In(HunkBody, d.content))

\* the added line of a second hunk, alone in the hunk returned for the new
\* start of the second header
C26_Witness ==
  /\ Returned
  /\ Len(patch) = 4
  /\ patch[3].hdr # <<>>
  /\ patch[2].mark = "+"
  /\ patch[4].mark = "+"
  /\ ReqRange.start = patch[3].hdr[3]
  /\ HunkBody = <<patch[4]>>

\* --------------------------------------------------------- marker lines
DiffMarks == {"+", "-", " ", ""}
CountsOld(line) == line.mark \in {"-", " ", ""}
CountsNew(line) == line.mark \in {"+", " ", ""}

\* C27: only the lines of the patch that begin with '+', '-' or a space (or
\* are empty) are parsed diff lines, and the oldLines and newLines of a
\* returned hunk count only such lines of its body: a line with another
\* leading character, such as the marker of a missing newline at the end of
\* the file, is no diff line and is counted in neither.
C27_OnlyDiffLinesCount ==
  /\ \A i \in 1..Len(AllDiffLines) : AllDiffLines[i].content.mark \in DiffMarks
  /\ Returned =>
       /\ hunks[1].oldLines = Len(SelectSeq(HunkBody, CountsOld))
       /\ hunks[1].newLines = Len(SelectSeq(HunkBody, CountsNew))

\* ---------------------------------------------------------- branch name
IsCreateBranch(o) == o.op = "createBranch"
CreateBranchCalls == SelectSeq(ops, IsCreateBranch)
LoopEnded == checks # <<>> /\ ~checks[Len(checks)].exists

RunOrder ==
  <<"createBranch", "createCommit", "updateRef", "createPullRequest", "addLabels",
    "requestReviewers", "success reply">>

StepName(o) ==
  IF IsReply(o) THEN (IF o.message = "created" THEN "success reply" ELSE "error reply")
  ELSE o.op

IsMadeStep(o) == o.ok /\ Includes(RunOrder, StepName(o))
MadeSteps == SelectSeq(ops, IsMadeStep)
StepIndex(o) == CHOOSE i \in 1..Len(RunOrder) : RunOrder[i] = StepName(o)
PullRequestAt == StepIndex([op |-> "createPullRequest", message |-> "", ok |-> TRUE])

\* C29: the requests of a run that were made are in the order branch, commit,
\* ref of the branch, pull request, labels, reviewers, success reply; none of
\* them is made before everything up to the pull request that stands before
\* it in this order was made, so the success reply is posted only after the
\* pull request was created; and the result is a success only when the last
\* request of the run is the posted success reply.
C29_RemoteOrder ==
  LET made == MadeSteps IN
  /\ \A i, j \in 1..Len(made) : i < j => StepIndex(made[i]) < StepIndex(made[j])
  /\ \A k \in 1..Len(made) :
       IF StepIndex(made[k]) <= PullRequestAt
         THEN StepIndex(made[k]) = k
         ELSE k > PullRequestAt
  /\ result.success =>
       /\ ops # <<>>
       /\ ops[Len(ops)].ok
       /\ StepName(ops[Len(ops)]) = "success reply"

\* a run that added labels and requested reviewers and returned a success
C29_Witness ==
  /\ pc = "returned"
  /\ result.success
  /\ Len(MadeSteps) = Len(RunOrder)

\* -------------------------------------------------------- failed runs
\* C30: when spliceBatch has returned a failure, no request of the run has
\* created a branch or opened a pull request.
C30_FailureLeavesNothing ==
  ((pc = "returned" \/ pc = "done") /\ ~result.success) =>
    \A k \in 1..Len(ops) : ~(Creates(ops[k]) /\ ops[k].ok)

====
